---- MODULE Spec2Model ----
(***************************************************************************)
(* Model of aircraft_monitor.py: the geometry functions, the two decision  *)
(* predicates, the notifier wrapper and the poll loop of monitor_flights.  *)
(*                                                                         *)
(* Numbers.  Python floats are modelled by exact values:                   *)
(*   - degrees, feet, km/h, the thresholds: integers;                      *)
(*   - metres: ten-thousandths of a metre (feet * 3048), or +infinity;     *)
(*   - a distance: its square, in square decametres (math.sqrt is          *)
(*     monotone, so a comparison with a threshold compares the squares);   *)
(*   - minutes: a fraction num/den, or +infinity;                          *)
(*   - math.sin / math.cos at the four cardinal headings: the exact value  *)
(*     m in {-1,0,1} plus the residue r the floating-point result has      *)
(*     where the exact value is 0 (sin(pi) = 1.22e-16 = 2 units of         *)
(*     6.12e-17, cos(pi/2) = 1 unit, cos(3pi/2) = -3 units).  A residue    *)
(*     only decides a sign when the exact part is zero.                    *)
(***************************************************************************)
EXTENDS Integers, Sequences, FiniteSets, TLC

VARIABLES cfg, pc, cycle, flights_data, target_aircrafts_found, idx,
          alert_message, sent, crash, arg, ret

vars == <<cfg, pc, cycle, flights_data, target_aircrafts_found, idx,
          alert_message, sent, crash, arg, ret>>

----------------------------------------------------------------------------
(* Bounds of the model *)

MaxDeg == 2
MaxFlights == 2
MaxCycles == 2

----------------------------------------------------------------------------
(* Extended reals *)

Fin(n) == [inf |-> FALSE, v |-> n]
PosInf == [inf |-> TRUE, v |-> 0]

\* x < n and x <= n for metres x (in ten-thousandths, or +infinity) and an
\* integer number of metres n
LtMetres(x, n) == ~x.inf /\ x.v < n * 10000
LeqMetres(x, n) == ~x.inf /\ x.v <= n * 10000

\* dict.get(key, default)
Get(d, key, default) == IF key \in DOMAIN d THEN d[key] ELSE default

Sign(n) == IF n > 0 THEN 1 ELSE IF n < 0 THEN -1 ELSE 0

----------------------------------------------------------------------------
(* Configuration read from the environment at import time *)

LATITUDE == cfg.LATITUDE
LONGITUDE == cfg.LONGITUDE
LOW_ALTITUDE_THRESHOLD_M == cfg.LOW_ALTITUDE_THRESHOLD_M
TARGET_AIRCRAFT_CODE == cfg.TARGET_AIRCRAFT_CODE
ALERT_DISTANCE_THRESHOLD_KM == cfg.ALERT_DISTANCE_THRESHOLD_KM
ALERT_TIME_THRESHOLD_MIN == cfg.ALERT_TIME_THRESHOLD_MIN
ALERT_ALTITUDE_THRESHOLD_M == cfg.ALERT_ALTITUDE_THRESHOLD_M

----------------------------------------------------------------------------
(* Geometry *)

KmPerDegree == 111
MinPerHour == 60

\* feet * 0.3048, in ten-thousandths of a metre; inf * 0.3048 = inf
feet_to_meters(feet) ==
    IF feet.inf THEN PosInf ELSE Fin(feet.v * 3048)

\* the square of the 3D distance, in square decametres
calculate_distance(flight, lat, lon) ==
    LET pos == flight.position
        lat0 == pos.latitude
        lon0 == pos.longitude
        alt_m == feet_to_meters(Fin(Get(pos, "altitude", 0)))
        dx_km == (lat0 - lat) * KmPerDegree
        dy_km == (lon0 - lon) * KmPerDegree
        horizontal_sq_km == dx_km * dx_km + dy_km * dy_km
        alt_dam == alt_m.v \div 100000
    IN  horizontal_sq_km * 100 * 100 + alt_dam * alt_dam

\* distance_km <= threshold_km, on the squared distance
LeqDistance(dist_sq, threshold_km) ==
    /\ threshold_km >= 0
    /\ dist_sq <= (threshold_km * 100) * (threshold_km * 100)

\* deg * pi / 180, in quarter turns
deg2rad(deg) == deg \div 90

\* math.sin and math.cos of a quarter-turn angle: exact part m, residue r
sin(rad) ==
    CASE rad = 0 -> [m |-> 0, r |-> 0]
      [] rad = 1 -> [m |-> 1, r |-> 0]
      [] rad = 2 -> [m |-> 0, r |-> 2]
      [] rad = 3 -> [m |-> -1, r |-> 0]

cos(rad) ==
    CASE rad = 0 -> [m |-> 1, r |-> 0]
      [] rad = 1 -> [m |-> 0, r |-> 1]
      [] rad = 2 -> [m |-> -1, r |-> 0]
      [] rad = 3 -> [m |-> 0, r |-> -3]

InfMinutes == [inf |-> TRUE, num |-> 0, den |-> 1, r |-> 0]

\* t <= threshold for a minutes value t
LeqMinutes(t, threshold) ==
    /\ ~t.inf
    /\ \/ t.num < threshold * t.den
       \/ t.num = threshold * t.den /\ t.r <= 0

\* time_until_closest with "return 0" for a flight that has no speed
time_until_closest_zero_speed(flight, lat, lon) ==
    LET pos == flight.position
        speed_kmh == Get(pos, "ground_speed", 0)
        heading_rad == deg2rad(Get(pos, "heading", 0))
        vx == [m |-> sin(heading_rad).m * speed_kmh, r |-> sin(heading_rad).r * speed_kmh]
        vy == [m |-> cos(heading_rad).m * speed_kmh, r |-> cos(heading_rad).r * speed_kmh]
        dx == (pos.latitude - lat) * KmPerDegree
        dy == (pos.longitude - lon) * KmPerDegree
        dot == [m |-> dx * vx.m + dy * vy.m, r |-> dx * vx.r + dy * vy.r]
        speed_sq == vx.m * vx.m + vy.m * vy.m
    IN  IF speed_kmh = 0 THEN [inf |-> FALSE, num |-> 0, den |-> 1, r |-> 0]
        ELSE IF dot.m > 0 \/ (dot.m = 0 /\ dot.r > 0) THEN InfMinutes
        ELSE [inf |-> FALSE, num |-> (0 - dot.m) * MinPerHour, den |-> speed_sq,
              r |-> IF dot.m = 0 THEN Sign(0 - dot.r) ELSE 0]

time_until_closest(flight, lat, lon) ==
    LET pos == flight.position
        lat0 == pos.latitude
        lon0 == pos.longitude
        speed_kmh == Get(pos, "ground_speed", 0)
        heading_deg == Get(pos, "heading", 0)
        heading_rad == deg2rad(heading_deg)
        vx == [m |-> sin(heading_rad).m * speed_kmh, r |-> sin(heading_rad).r * speed_kmh]
        vy == [m |-> cos(heading_rad).m * speed_kmh, r |-> cos(heading_rad).r * speed_kmh]
        dx == (lat0 - lat) * KmPerDegree
        dy == (lon0 - lon) * KmPerDegree
        dot == [m |-> dx * vx.m + dy * vy.m, r |-> dx * vx.r + dy * vy.r]
        speed_sq == vx.m * vx.m + vy.m * vy.m
        \* t_cpa = -dot / speed_sq
        t_cpa_negative == dot.m > 0 \/ (dot.m = 0 /\ dot.r > 0)
    IN  IF speed_kmh = 0 THEN InfMinutes
        ELSE IF speed_sq = 0 THEN InfMinutes
        ELSE IF t_cpa_negative THEN InfMinutes
        ELSE [inf |-> FALSE, num |-> (0 - dot.m) * MinPerHour, den |-> speed_sq,
              r |-> IF dot.m = 0 THEN Sign(0 - dot.r) ELSE 0]

----------------------------------------------------------------------------
(* Decision predicates *)

\* should_send_alert without the time-to-closest-approach condition
should_send_alert_no_time(flight, lat, lon) ==
    LET altitude_ft == IF "altitude" \in DOMAIN flight.position
                       THEN Fin(flight.position.altitude) ELSE PosInf
    IN  /\ LeqMetres(feet_to_meters(altitude_ft), ALERT_ALTITUDE_THRESHOLD_M)
        /\ LeqDistance(calculate_distance(flight, lat, lon), ALERT_DISTANCE_THRESHOLD_KM)

should_send_alert(flight, lat, lon) ==
    LET altitude_ft == IF "altitude" \in DOMAIN flight.position
                       THEN Fin(flight.position.altitude) ELSE PosInf
        altitude_m == feet_to_meters(altitude_ft)
        distance_km == calculate_distance(flight, lat, lon)
        time_until_closest_min == time_until_closest(flight, lat, lon)
    IN  /\ LeqMetres(altitude_m, ALERT_ALTITUDE_THRESHOLD_M)
        /\ LeqDistance(distance_km, ALERT_DISTANCE_THRESHOLD_KM)
        /\ LeqMinutes(time_until_closest_min, ALERT_TIME_THRESHOLD_MIN)

\* is_target_aircraft that accepts every aircraft that has a code
is_target_aircraft_any(flight) ==
    Get(flight.aircraft, "code", "None") # "None"

is_target_aircraft(flight) ==
    Get(flight.aircraft, "code", "None") = TARGET_AIRCRAFT_CODE

\* is_low_altitude with the default of calculate_distance (0) for a missing altitude
is_low_altitude_default_zero(flight) ==
    LtMetres(feet_to_meters(Fin(Get(flight.position, "altitude", 0))),
             LOW_ALTITUDE_THRESHOLD_M)

is_low_altitude(flight) ==
    LET altitude_ft == IF "altitude" \in DOMAIN flight.position
                       THEN Fin(flight.position.altitude) ELSE PosInf
        altitude_m == feet_to_meters(altitude_ft)
    IN  LtMetres(altitude_m, LOW_ALTITUDE_THRESHOLD_M)

----------------------------------------------------------------------------
(* Flight records of the feed *)

NoKeys == [k \in {} |-> 0]

\* an optional key: o is <<>> (key absent) or <<value>>
Opt(key, o) == IF o = <<>> THEN NoKeys ELSE key :> o[1]

Position(lat, lon, alt, gs, hdg) ==
    [latitude |-> lat, longitude |-> lon]
        @@ Opt("altitude", alt) @@ Opt("ground_speed", gs) @@ Opt("heading", hdg)

FlightRecord(code, callsign, pos) ==
    [aircraft |-> [code |-> code], number |-> "N/A", callsign |-> callsign,
     position |-> pos]

\* altitudes in feet on the 12500 ft (3810 m) grid, on which the distance
\* is a whole number of decametres
Altitudes == {<<>>, <<0>>, <<12500>>}
Speeds == {<<>>, <<0>>, <<250>>, <<500>>}
Headings == {<<>>, <<0>>, <<90>>, <<180>>, <<270>>}

FnFlights ==
    { FlightRecord("A388", "SIA322", Position(lat, lon, alt, gs, hdg)) :
        lat \in (0 - MaxDeg)..MaxDeg, lon \in {0, 1},
        alt \in Altitudes, gs \in Speeds, hdg \in Headings }

FnConfigs ==
    [ LATITUDE : {0}, LONGITUDE : {0, 1},
      LOW_ALTITUDE_THRESHOLD_M : {1000, 5000},
      TARGET_AIRCRAFT_CODE : {"A388"},
      ALERT_DISTANCE_THRESHOLD_KM : {50, 150},
      ALERT_TIME_THRESHOLD_MIN : {0, 15, 30},
      ALERT_ALTITUDE_THRESHOLD_M : {1000, 5000} ]

\* the feed of the poll loop: one other aircraft, and target aircraft 111 km
\* north of the observer, either flying at 500 km/h on heading 270 or
\* reported without ground_speed and heading
MonitorFlights ==
    { FlightRecord("B738", "RYR4TF", Position(1, 0, <<0>>, <<500>>, <<270>>)) }
    \cup
    { FlightRecord("A388", "SIA322", Position(1, 0, alt, motion[1], motion[2])) :
        alt \in Altitudes, motion \in { <<<<500>>, <<270>>>>, <<<<>>, <<>>>> } }

MonitorConfigs ==
    [ LATITUDE : {0}, LONGITUDE : {0},
      LOW_ALTITUDE_THRESHOLD_M : {1000},
      TARGET_AIRCRAFT_CODE : {"A388"},
      ALERT_DISTANCE_THRESHOLD_KM : {150},
      ALERT_TIME_THRESHOLD_MIN : {30},
      ALERT_ALTITUDE_THRESHOLD_M : {1000, 5000} ]

SeqsUpTo(S, n) == UNION { [1..k -> S] : k \in 0..n }

----------------------------------------------------------------------------
(* Notifier *)

\* what PMMail does: the mail is sent, send() returns a falsy result, the
\* constructor raises, or send() raises
SendOutcomes == {"sent", "falsy", "construct_raises", "send_raises"}

\* send_email_alert without the try/except
send_email_alert_uncaught(outcome) ==
    IF outcome \in {"construct_raises", "send_raises"} THEN "raised" ELSE "returned"

\* how send_email_alert ends: every Exception is caught and printed
send_email_alert(outcome) ==
    CASE outcome = "sent" -> "returned"
      [] outcome = "falsy" -> "returned"
      [] outcome \in {"construct_raises", "send_raises"} -> "returned"

----------------------------------------------------------------------------
(* Poll loop *)

NoCrash == [error |-> "none", flight |-> <<>>]
NoRet == [fn |-> "none", value |-> FALSE]
NoArg == [flight |-> <<>>, lat |-> 0, lon |-> 0]

\* first of number, callsign, icao_24bit that is set and not "N/A"
FlightId(flight) ==
    LET vs == << Get(flight, "number", ""), Get(flight, "callsign", ""),
                 Get(flight, "icao_24bit", "") >>
        ok == { i \in 1..3 : vs[i] # "" /\ vs[i] # "N/A" }
    IN  IF ok = {} THEN "N/A" ELSE vs[CHOOSE i \in ok : \A j \in ok : i <= j]

\* the text of the low-altitude alert, by the values it is formatted from
AlertText(flight, lat, lon) ==
    [flight_id |-> FlightId(flight),
     altitude_m |-> feet_to_meters(Fin(flight.position.altitude)),
     distance_km |-> calculate_distance(flight, lat, lon),
     minutes_until_closest |-> time_until_closest(flight, lat, lon)]

Init ==
    /\ cfg \in MonitorConfigs
    /\ pc = "fetch"
    /\ cycle = 0
    /\ flights_data = [found |-> 0, flights |-> <<>>]
    /\ target_aircrafts_found = <<>>
    /\ idx = 0
    /\ alert_message = <<>>
    /\ sent = <<>>
    /\ crash = NoCrash
    /\ arg = NoArg
    /\ ret = NoRet

\* top of the while loop: fetch, filter the target aircraft
Fetch ==
    /\ pc = "fetch"
    /\ \E fl \in SeqsUpTo(MonitorFlights, MaxFlights) :
         LET data == [found |-> Len(fl), flights |-> fl]
             found == IF data.found # 0
                      THEN SelectSeq(data.flights, is_target_aircraft)
                      ELSE <<>>
         IN  /\ flights_data' = data
             /\ target_aircrafts_found' = found
             /\ IF found # <<>>
                THEN pc' = "flight" /\ idx' = 1
                ELSE pc' = "sleep" /\ idx' = 0
    /\ cycle' = cycle + 1
    /\ sent' = <<>>
    /\ UNCHANGED <<cfg, alert_message, crash, arg, ret>>

\* one iteration of "for flight in target_aircrafts_found"
ProcessFlight ==
    /\ pc = "flight"
    /\ \E outcome \in SendOutcomes :
         LET flight == target_aircrafts_found[idx]
             lat == LATITUDE
             lon == LONGITUDE
             known == "altitude" \in DOMAIN flight.position
             \* altitude_m is the string "unknown": the .0f format raises
             message == IF is_low_altitude(flight)
                        THEN << [text |-> AlertText(flight, lat, lon),
                                 built |-> <<cycle, idx>>] >>
                        ELSE alert_message
             next_pc == IF idx < Len(target_aircrafts_found) THEN "flight" ELSE "sleep"
         IN  IF ~known
             THEN /\ pc' = "crashed"
                  /\ crash' = [error |-> "ValueError", flight |-> <<flight>>]
                  /\ UNCHANGED <<idx, alert_message, sent>>
             ELSE IF ~should_send_alert(flight, lat, lon)
             THEN /\ pc' = next_pc
                  /\ idx' = IF next_pc = "flight" THEN idx + 1 ELSE idx
                  /\ alert_message' = message
                  /\ UNCHANGED <<sent, crash>>
             ELSE IF message = <<>>
             THEN /\ pc' = "crashed"
                  /\ crash' = [error |-> "UnboundLocalError", flight |-> <<flight>>]
                  /\ alert_message' = message
                  /\ UNCHANGED <<idx, sent>>
             ELSE /\ sent' = Append(sent, [flight |-> flight, idx |-> idx,
                                           message |-> message[1], outcome |-> outcome])
                  /\ alert_message' = message
                  /\ IF send_email_alert(outcome) = "returned"
                     THEN /\ pc' = next_pc
                          /\ idx' = IF next_pc = "flight" THEN idx + 1 ELSE idx
                          /\ crash' = crash
                     ELSE /\ pc' = "crashed"
                          /\ idx' = idx
                          /\ crash' = [error |-> "Exception", flight |-> <<flight>>]
    /\ UNCHANGED <<cfg, cycle, flights_data, target_aircrafts_found, arg, ret>>

\* time.sleep(poll_interval), then the next cycle
Sleep ==
    /\ pc = "sleep"
    /\ cycle < MaxCycles
    /\ pc' = "fetch"
    /\ UNCHANGED <<cfg, cycle, flights_data, target_aircrafts_found, idx,
                   alert_message, sent, crash, arg, ret>>

Next == Fetch \/ ProcessFlight \/ Sleep

Spec == Init /\ [][Next]_vars

----------------------------------------------------------------------------
(* The pure functions, called on every flight and configuration *)

InitFn ==
    /\ cfg \in FnConfigs
    /\ pc = "call"
    /\ arg \in { [flight |-> f, lat |-> cfg.LATITUDE, lon |-> cfg.LONGITUDE] :
                    f \in FnFlights }
    /\ ret = NoRet
    /\ cycle = 0
    /\ flights_data = [found |-> 0, flights |-> <<>>]
    /\ target_aircrafts_found = <<>>
    /\ idx = 0
    /\ alert_message = <<>>
    /\ sent = <<>>
    /\ crash = NoCrash

Return(fn, value) ==
    /\ pc = "call"
    /\ pc' = "returned"
    /\ ret' = [fn |-> fn, value |-> value]
    /\ UNCHANGED <<cfg, cycle, flights_data, target_aircrafts_found, idx,
                   alert_message, sent, crash, arg>>

CallShouldSendAlert ==
    Return("should_send_alert", should_send_alert(arg.flight, arg.lat, arg.lon))

CallIsLowAltitude ==
    Return("is_low_altitude", is_low_altitude(arg.flight))

CallCalculateDistance ==
    Return("calculate_distance", calculate_distance(arg.flight, arg.lat, arg.lon))

CallTimeUntilClosest ==
    Return("time_until_closest", time_until_closest(arg.flight, arg.lat, arg.lon))

NextFn ==
    \/ CallShouldSendAlert
    \/ CallIsLowAltitude
    \/ CallCalculateDistance
    \/ CallTimeUntilClosest

SpecFn == InitFn /\ [][NextFn]_vars

----------------------------------------------------------------------------
(* Properties of the pure functions (SpecFn) *)

Returned(fn) == pc = "returned" /\ ret.fn = fn

ArgPos == arg.flight.position
HasAltitude == "altitude" \in DOMAIN ArgPos
ArgSpeed == Get(ArgPos, "ground_speed", 0)

\* C1: should_send_alert returns true if and only if the altitude in metres
\* (a missing altitude counting as +infinity) is at most
\* ALERT_ALTITUDE_THRESHOLD_M, calculate_distance is at most
\* ALERT_DISTANCE_THRESHOLD_KM and time_until_closest is at most
\* ALERT_TIME_THRESHOLD_MIN; it is false as soon as one of the three fails.
C1_AlertIffAllThree ==
    Returned("should_send_alert") =>
        LET altitude_ok == /\ HasAltitude
                           /\ ArgPos.altitude * 3048 <= ALERT_ALTITUDE_THRESHOLD_M * 10000
            distance_ok == LeqDistance(calculate_distance(arg.flight, arg.lat, arg.lon),
                                       ALERT_DISTANCE_THRESHOLD_KM)
            time_ok == LeqMinutes(time_until_closest(arg.flight, arg.lat, arg.lon),
                                  ALERT_TIME_THRESHOLD_MIN)
        IN  /\ ret.value = (altitude_ok /\ distance_ok /\ time_ok)
            /\ (~altitude_ok \/ ~distance_ok \/ ~time_ok) => ret.value = FALSE

\* should_send_alert has returned false for a flight at distance 0 and
\* altitude 0 whose time to closest approach alone fails (it is infinite)
C1_Witness ==
    /\ Returned("should_send_alert")
    /\ ret.value = FALSE
    /\ HasAltitude /\ ArgPos.altitude = 0
    /\ calculate_distance(arg.flight, arg.lat, arg.lon) = 0
    /\ time_until_closest(arg.flight, arg.lat, arg.lon).inf

\* C4: for a flight due north of the observer by d > 0 degrees, at the same
\* longitude, with ground_speed s > 0 and heading 180, time_until_closest
\* returns the finite travel time (111 * d / s) * 60 minutes.
C4_ClosingTravelTime ==
    ( /\ Returned("time_until_closest")
      /\ ArgPos.latitude > arg.lat /\ ArgPos.longitude = arg.lon
      /\ ArgSpeed > 0
      /\ Get(ArgPos, "heading", 0) = 180 /\ "heading" \in DOMAIN ArgPos )
    => /\ ~ret.value.inf
       /\ ret.value.num * ArgSpeed
            = KmPerDegree * (ArgPos.latitude - arg.lat) * MinPerHour * ret.value.den

\* C5: for a flight due north of the observer by d > 0 degrees, at the same
\* longitude, with ground_speed s > 0 and heading 0 (moving away),
\* time_until_closest returns +infinity.
C5_MovingAwayIsInfinite ==
    ( /\ Returned("time_until_closest")
      /\ ArgPos.latitude > arg.lat /\ ArgPos.longitude = arg.lon
      /\ ArgSpeed > 0
      /\ "heading" \in DOMAIN ArgPos /\ ArgPos.heading = 0 )
    => ret.value.inf

\* C8: for a flight without an altitude, is_low_altitude returns false and
\* should_send_alert returns false whatever the position, speed, heading and
\* thresholds, while calculate_distance takes the missing altitude as 0 (it
\* returns the horizontal distance).
C8_MissingAltitudeNeverLowNeverAlert ==
    (pc = "returned" /\ ~HasAltitude) =>
        /\ ret.fn = "is_low_altitude" => ret.value = FALSE
        /\ ret.fn = "should_send_alert" => ret.value = FALSE
        /\ ret.fn = "calculate_distance" =>
              ret.value = KmPerDegree * KmPerDegree * 10000 *
                            ( (ArgPos.latitude - arg.lat) * (ArgPos.latitude - arg.lat)
                            + (ArgPos.longitude - arg.lon) * (ArgPos.longitude - arg.lon) )

\* is_low_altitude has returned false for a flight without an altitude that
\* is at distance 0, which calculate_distance finds by taking the altitude as 0
C8_Witness ==
    /\ Returned("is_low_altitude")
    /\ ~HasAltitude
    /\ ret.value = FALSE
    /\ calculate_distance(arg.flight, arg.lat, arg.lon) = 0

\* C9: for a flight whose ground_speed is 0 or absent, time_until_closest
\* returns +infinity for any position and heading, and should_send_alert is
\* false, even at distance 0 km and altitude 0 m.
C9_NoSpeedNeverAlerts ==
    (pc = "returned" /\ ArgSpeed = 0) =>
        /\ ret.fn = "time_until_closest" => ret.value.inf
        /\ ret.fn = "should_send_alert" => ret.value = FALSE

\* should_send_alert has returned false for a flight with ground_speed 0 at
\* distance 0 km and altitude 0 m, under a time threshold of 30 minutes
C9_Witness ==
    /\ Returned("should_send_alert")
    /\ "ground_speed" \in DOMAIN ArgPos /\ ArgPos.ground_speed = 0
    /\ HasAltitude /\ ArgPos.altitude = 0
    /\ calculate_distance(arg.flight, arg.lat, arg.lon) = 0
    /\ ALERT_TIME_THRESHOLD_MIN = 30
    /\ ret.value = FALSE

----------------------------------------------------------------------------
(* Properties of the poll loop (Spec) *)

FeedFlights == { flights_data.flights[i] : i \in 1..Len(flights_data.flights) }
IsTarget(flight) == flight.aircraft.code = TARGET_AIRCRAFT_CODE
Qualifies(flight) == IsTarget(flight) /\ should_send_alert(flight, LATITUDE, LONGITUDE)
Occurrences(flight) ==
    Cardinality({ i \in 1..Len(flights_data.flights) : flights_data.flights[i] = flight })
SendsFor(flight) ==
    Cardinality({ k \in 1..Len(sent) : sent[k].flight = flight })
OptionalKeys == {"altitude", "ground_speed", "heading"}

\* C2: in every poll cycle, every flight of the fetched feed that has the
\* target aircraft code and for which should_send_alert is true gets one
\* send_email_alert call in that cycle.
C2_EveryQualifyingFlightNotified ==
    pc \in {"sleep", "crashed"} =>
        \A f \in FeedFlights : Qualifies(f) => SendsFor(f) = Occurrences(f)

\* C3: send_email_alert is called in a poll cycle only for a flight of that
\* cycle's feed that has the target aircraft code and for which
\* should_send_alert is true; a cycle whose feed has no flight of the target
\* code sends nothing, changes nothing and goes to the sleep.
C3_OnlyQualifyingFlightsNotified ==
    /\ [](\A k \in 1..Len(sent) :
            /\ sent[k].flight \in FeedFlights
            /\ IsTarget(sent[k].flight)
            /\ should_send_alert(sent[k].flight, LATITUDE, LONGITUDE))
    /\ [][ ( /\ pc = "fetch"
             /\ pc' # "fetch"
             /\ \A i \in 1..Len(flights_data'.flights) :
                   flights_data'.flights[i].aircraft.code # TARGET_AIRCRAFT_CODE )
           => ( /\ pc' = "sleep"
                /\ sent' = <<>>
                /\ alert_message' = alert_message
                /\ crash' = crash ) ]_vars

\* a cycle has ended in which one e-mail was sent and the feed also held an
\* aircraft of another code
C3_Witness ==
    /\ pc = "sleep"
    /\ Len(sent) = 1
    /\ \E f \in FeedFlights : ~IsTarget(f)

\* C6: processing a target flight whose position lacks altitude,
\* ground_speed or heading never raises inside a poll cycle.
C6_MissingFieldsNeverRaise ==
    pc = "crashed" => OptionalKeys \subseteq DOMAIN crash.flight[1].position

\* C7: a failure of the notifier (the constructor or send raising, or send
\* returning a falsy result) does not abort the poll loop and is not retried:
\* the e-mail is attempted once for that flight and the loop goes on with the
\* next flight of the cycle, or with the sleep.
C7_NotifierFailureSwallowed ==
    [][ ( /\ pc = "flight"
          /\ Len(sent') = Len(sent) + 1
          /\ sent'[Len(sent')].outcome # "sent" )
        => ( /\ crash' = NoCrash
             /\ pc' = IF idx < Len(target_aircrafts_found) THEN "flight" ELSE "sleep"
             /\ pc' = "flight" => idx' = idx + 1
             /\ Cardinality({ k \in 1..Len(sent') : sent'[k].idx = idx }) = 1 ) ]_vars

\* send raised for the first target flight of a cycle and the loop is at the
\* second one
C7_Witness ==
    /\ pc = "flight"
    /\ idx = 2
    /\ Len(sent) = 1
    /\ sent[1].outcome = "send_raises"

\* C10: the message body passed to send_email_alert is a value built in the
\* current loop iteration from the same flight; it is never unassigned and
\* never the text left by another flight or an earlier cycle.
C10_BodyBuiltForSameFlight ==
    /\ crash.error # "UnboundLocalError"
    /\ \A k \in 1..Len(sent) :
          /\ sent[k].message.built = <<cycle, sent[k].idx>>
          /\ sent[k].message.text = AlertText(sent[k].flight, LATITUDE, LONGITUDE)
====
